---- MODULE Spec2Model ----
(***************************************************************************)
(* Model of Notebook/retrievedata.py (setup_state_data, get_num_seats,     *)
(* retrieve_2020_state_district_data, get_all_data) and of the earlier     *)
(* retrieve_2020_state_district_data of Functions.py.                      *)
(*                                                                         *)
(* Python strings are sequences of one-character strings.  Python dicts    *)
(* are insertion-ordered, so a dict is a sequence of <<key, value>> pairs  *)
(* with distinct keys.  A DataFrame is the sequence of its rows.           *)
(***************************************************************************)
EXTENDS Integers, Sequences, FiniteSets, TLC

(***************************************************************************)
(* Bounds of the model.                                                    *)
(***************************************************************************)
\* largest district number a caller passes to the single-district call
MaxDistrict == 13
\* longest list of identifiers passed to get_all_data
MaxFilter == 2

(***************************************************************************)
(* Strings.                                                                *)
(***************************************************************************)
UpperCase == <<"A","B","C","D","E","F","G","H","I","J","K","L","M",
               "N","O","P","Q","R","S","T","U","V","W","X","Y","Z">>
LowerCase == <<"a","b","c","d","e","f","g","h","i","j","k","l","m",
               "n","o","p","q","r","s","t","u","v","w","x","y","z">>
DigitChars == <<"0","1","2","3","4","5","6","7","8","9">>

Range(s) == {s[i] : i \in DOMAIN s}

Letters == Range(UpperCase) \cup Range(LowerCase)
Alnum == Letters \cup Range(DigitChars)

\* str.lower() on the letters
lower_of == [c \in Letters |->
               IF \E i \in DOMAIN UpperCase : UpperCase[i] = c
               THEN LowerCase[CHOOSE i \in DOMAIN UpperCase : UpperCase[i] = c]
               ELSE c]

\* str.strip(): drop leading and trailing blanks
strip(s) ==
  LET keep == {i \in DOMAIN s : s[i] # " "}
  IN  IF keep = {} THEN <<>>
      ELSE LET lo == CHOOSE i \in keep : \A j \in keep : i <= j
               hi == CHOOSE i \in keep : \A j \in keep : j <= i
           IN  SubSeq(s, lo, hi)

\* fuzzywuzzy utils.full_process: every character that is not a letter or a
\* digit becomes a blank, the string is lower-cased, then stripped
full_process(s) ==
  strip([i \in DOMAIN s |->
           IF s[i] \in Letters THEN lower_of[s[i]]
           ELSE IF s[i] \in Alnum THEN s[i]
           ELSE " "])

(***************************************************************************)
(* fuzz.ratio.  fuzzywuzzy computes 2*M/T with M the number of matched     *)
(* characters and T the total length; M comes from python-Levenshtein      *)
(* when that package is installed and from difflib otherwise.  Which one   *)
(* is installed is a property of the build: the model carries it in the    *)
(* variable matcher.                                                       *)
(***************************************************************************)
RECURSIVE MatchLen(_, _, _, _, _, _)
\* length of the common run of a[i..ahi-1] and b[j..bhi-1]
MatchLen(a, b, i, j, ahi, bhi) ==
  IF i < ahi /\ j < bhi /\ a[i] = b[j]
  THEN 1 + MatchLen(a, b, i + 1, j + 1, ahi, bhi)
  ELSE 0

RECURSIVE scan_longest(_, _, _, _, _, _, _, _, _)
\* the scan of find_longest_match over the pairs (i, j) in ascending order:
\* a block replaces the best so far only when it is strictly longer
scan_longest(a, b, alo, ahi, blo, bhi, i, j, best) ==
  IF i >= ahi THEN best
  ELSE IF j >= bhi THEN scan_longest(a, b, alo, ahi, blo, bhi, i + 1, blo, best)
  ELSE LET k == MatchLen(a, b, i, j, ahi, bhi)
       IN  scan_longest(a, b, alo, ahi, blo, bhi, i, j + 1,
                        IF k > best.k THEN [i |-> i, j |-> j, k |-> k] ELSE best)

\* difflib.SequenceMatcher.find_longest_match(alo, ahi, blo, bhi) without
\* junk: the longest block, the earliest in a, and of those the earliest in b
\* (positions are 1-based, ahi and bhi exclusive)
find_longest_match(a, b, alo, ahi, blo, bhi) ==
  scan_longest(a, b, alo, ahi, blo, bhi, alo, blo, [i |-> alo, j |-> blo, k |-> 0])

RECURSIVE matching_blocks_size(_, _, _, _, _, _)
\* sum of the sizes of difflib.SequenceMatcher.get_matching_blocks()
matching_blocks_size(a, b, alo, ahi, blo, bhi) ==
  IF alo >= ahi \/ blo >= bhi THEN 0
  ELSE LET m == find_longest_match(a, b, alo, ahi, blo, bhi)
       IN  IF m.k = 0 THEN 0
           ELSE m.k
                + matching_blocks_size(a, b, alo, m.i, blo, m.j)
                + matching_blocks_size(a, b, m.i + m.k, ahi, m.j + m.k, bhi)

RECURSIVE lcs(_, _, _, _)
\* python-Levenshtein ratio counts a substitution as two edits, so its
\* number of matched characters is the longest common subsequence
lcs(a, b, i, j) ==
  IF i > Len(a) \/ j > Len(b) THEN 0
  ELSE IF a[i] = b[j] THEN 1 + lcs(a, b, i + 1, j + 1)
  ELSE LET x == lcs(a, b, i + 1, j)
           y == lcs(a, b, i, j + 1)
       IN  IF x >= y THEN x ELSE y

Matchers == {"difflib", "levenshtein"}

matched_chars(m, a, b) ==
  IF m = "difflib"
  THEN matching_blocks_size(a, b, 1, Len(a) + 1, 1, Len(b) + 1)
  ELSE lcs(a, b, 1, 1)

\* utils.intr(100 * 2.0 * M / T): Python 3 round() rounds halves to even
intr(num, den) ==
  LET q == num \div den
      r == num % den
  IN  IF 2 * r < den THEN q
      ELSE IF 2 * r > den THEN q + 1
      ELSE IF q % 2 = 0 THEN q ELSE q + 1

\* fuzz.ratio with its decorators: equal strings score 100, an empty string
\* scores 0, otherwise the rounded percentage
ratio(m, s1, s2) ==
  IF s1 = s2 THEN 100
  ELSE IF Len(s1) = 0 \/ Len(s2) = 0 THEN 0
  ELSE intr(200 * matched_chars(m, s1, s2), Len(s1) + Len(s2))

\* process.extractOne(query, choices, scorer=fuzz.ratio): query and choices
\* go through full_process; max() keeps the first of the best choices
extractOne(m, query, choices) ==
  LET q == full_process(query)
      score == [i \in DOMAIN choices |-> ratio(m, q, full_process(choices[i]))]
      best == CHOOSE i \in DOMAIN choices :
                \A j \in DOMAIN choices :
                   score[i] > score[j] \/ (score[i] = score[j] /\ i <= j)
  IN  [match |-> choices[best], score |-> score[best]]

(***************************************************************************)
(* Python values.                                                          *)
(***************************************************************************)
\* None is the empty tuple; any other value v of a global is held as <<v>>
None == <<>>
Some(v) == <<v>>
Val(g) == g[1]

\* pandas' missing value in a column of strings
NaN == <<"nan">>

RECURSIVE str(_)
\* str(n) for n >= 0
str(n) == IF n < 10 THEN <<DigitChars[n + 1]>>
          ELSE str(n \div 10) \o <<DigitChars[(n % 10) + 1]>>

\* f'{district:02}': the decimal digits, padded with zeros to width 2
format_02(district) ==
  IF Len(str(district)) < 2 THEN <<"0">> \o str(district) ELSE str(district)

\* dict operations on a sequence of <<key, value>> pairs
dict_keys(d) == [i \in DOMAIN d |-> d[i][1]]
dict_values(d) == [i \in DOMAIN d |-> d[i][2]]
dict_has(d, k) == \E i \in DOMAIN d : d[i][1] = k
dict_get(d, k) == d[CHOOSE i \in DOMAIN d : d[i][1] = k][2]

RECURSIVE to_dict(_, _, _)
\* df.set_index(key)[val].to_dict(): one entry per distinct key, at the place
\* of the key's first row, holding the value of the key's last row
to_dict(rows, key, val) ==
  IF rows = <<>> THEN <<>>
  ELSE LET front == to_dict(SubSeq(rows, 1, Len(rows) - 1), key, val)
           r == rows[Len(rows)]
       IN  IF dict_has(front, r[key])
           THEN [i \in DOMAIN front |->
                   IF front[i][1] = r[key] THEN <<r[key], r[val]>> ELSE front[i]]
           ELSE Append(front, <<r[key], r[val]>>)

(***************************************************************************)
(* The external documents.                                                 *)
(***************************************************************************)
Alaska == <<"A","l","a","s","k","a">>
Texas == <<"T","e","x","a","s">>
Utah == <<"U","t","a","h">>
Guam == <<"G","u","a","m">>
AK == <<"A","K">>
TX == <<"T","X">>
UT == <<"U","T">>
GU == <<"G","U">>

URL1 == <<"https://en.wikipedia.org/wiki/List_of_U.S._state_and_territory_abbreviations">>
URL2 == <<"https://en.wikipedia.org/wiki/2020_United_States_House_of_Representatives_elections">>
base_url == <<"https://www.opensecrets.org/races/summary.csv?cycle=2020&id=">>

\* The second table of URL1, reduced to the two columns the code keeps: the
\* country row first, then states, territories (Guam), and rows without a
\* two-letter code (obsolete regions).
AbbreviationTable ==
  << [State |-> <<"U","n","i","t","e","d"," ","S","t","a","t","e","s">>,
      Abbreviation |-> <<"U","S">>],
     [State |-> Alaska, Abbreviation |-> AK],
     [State |-> Guam, Abbreviation |-> GU],
     [State |-> <<"M","i","d","w","a","y">>, Abbreviation |-> NaN],
     [State |-> Texas, Abbreviation |-> TX],
     [State |-> Utah, Abbreviation |-> UT] >>

\* The second wikitable of URL2, reduced to the columns the code keeps: one
\* row per state and a closing row of totals.  The page is edited over time:
\* a fetch sees one of its versions.
SeatsTables ==
  { << [State |-> Alaska, Total_seats |-> 1],
       [State |-> Texas, Total_seats |-> 2],
       [State |-> Utah, Total_seats |-> 12],
       [State |-> <<"T","o","t","a","l">>, Total_seats |-> 15] >>,
    << [State |-> Alaska, Total_seats |-> 1],
       [State |-> Texas, Total_seats |-> 3],
       [State |-> Utah, Total_seats |-> 12],
       [State |-> <<"T","o","t","a","l">>, Total_seats |-> 16] >> }

\* requests.codes.ok
codes_ok == 200
\* the non-success statuses a source answers with
ErrorStatuses == {404}

\* response.raise_for_status() raises for 4xx and 5xx
raises_for_status(status) == 400 <= status /\ status < 600

(***************************************************************************)
(* Errors.  Every raise site of the code is one kind.                      *)
(***************************************************************************)
NoError == [type |-> "", kind |-> "", msg |-> <<>>]
Error(type, kind, msg) == [type |-> type, kind |-> kind, msg |-> msg]

HTTPError(url, status) == Error("HTTPError", "SourceUnavailable", url \o str(status))

(***************************************************************************)
(* setup_state_data                                                        *)
(***************************************************************************)
\* the module's global variables as one record
Globals(sdd, sdf, s2a, a2s, srd) ==
  [state_district_dict |-> sdd, states_df |-> sdf, state_to_abr_dict |-> s2a,
   abr_to_state_dict |-> a2s, state_representatives_df |-> srd]

\* lines 22-32: dropna() drops the rows with a missing cell, drop(0) the row
\* labelled 0 (the first row of the page's table)
clean_states_df(raw) ==
  LET labelled == [i \in DOMAIN raw |->
                     [label |-> i - 1, State |-> raw[i].State,
                      Abbreviation |-> raw[i].Abbreviation]]
      complete(r) == r.State # NaN /\ r.Abbreviation # NaN
      not_first(r) == r.label # 0
      kept == SelectSeq(SelectSeq(labelled, complete), not_first)
  IN  [i \in DOMAIN kept |->
         [State |-> kept[i].State, Abbreviation |-> kept[i].Abbreviation]]

RECURSIVE merge_left(_, _)
\* pd.merge(left, right, on='State', how='left'): the rows of left in order,
\* each once per row of right with the same State, or once with a missing
\* Abbreviation when right has none
merge_left(left, right) ==
  IF left = <<>> THEN <<>>
  ELSE LET l == Head(left)
           same(r) == r.State = l.State
           hits == SelectSeq(right, same)
           rows == IF hits = <<>>
                   THEN << [State |-> l.State, Total_seats |-> l.Total_seats,
                            Abbreviation |-> NaN] >>
                   ELSE [i \in DOMAIN hits |->
                           [State |-> l.State, Total_seats |-> l.Total_seats,
                            Abbreviation |-> hits[i].Abbreviation]]
       IN  rows \o merge_left(Tail(left), right)

\* lines 47-48: the merge, then drop of the last row
build_state_representatives_df(all_states_df, sdf) ==
  LET merged == merge_left(all_states_df, sdf)
  IN  SubSeq(merged, 1, Len(merged) - 1)

\* a slip at line 19: the globals are never seen as set
needs_setup_always(G) == TRUE

\* line 19
needs_setup(G) ==
  \/ G.state_district_dict = None
  \/ G.states_df = None
  \/ G.state_to_abr_dict = None
  \/ G.abr_to_state_dict = None

\* env.status1, env.status2: the statuses of the two fetches; env.seats: the
\* version of the seats table that URL2 serves.  The result carries the
\* globals afterwards, the reference documents fetched, and the error raised.
setup_state_data(G, env) ==
  IF ~needs_setup(G) THEN [G |-> G, ref |-> <<>>, err |-> NoError]
  ELSE IF env.status1 # codes_ok
  THEN [G |-> G, ref |-> <<URL1>>, err |-> HTTPError(URL1, env.status1)]
  ELSE LET sdf == clean_states_df(AbbreviationTable)
           G1 == [G EXCEPT !.states_df = Some(sdf)]
       IN  IF env.status2 # codes_ok /\ raises_for_status(env.status2)
           THEN [G |-> G1, ref |-> <<URL1, URL2>>,
                 err |-> HTTPError(URL2, env.status2)]
           ELSE IF env.status2 # codes_ok
           THEN \* neither branch of line 37 binds soup
                [G |-> G1, ref |-> <<URL1, URL2>>,
                 err |-> Error("UnboundLocalError", "ParseError", <<"soup">>)]
           ELSE LET srd == build_state_representatives_df(env.seats, sdf)
                IN  [G |-> Globals(
                             Some(to_dict(srd, "Abbreviation", "Total_seats")),
                             Some(sdf),
                             Some(to_dict(srd, "State", "Abbreviation")),
                             Some(to_dict(srd, "Abbreviation", "State")),
                             Some(srd)),
                     ref |-> <<URL1, URL2>>, err |-> NoError]

\* lines 61-64, s being what the call of setup_state_data at line 60 did
get_num_seats_after_setup(s, state) ==
  IF s.err # NoError THEN [G |-> s.G, ref |-> s.ref, err |-> s.err, value |-> 0]
  ELSE IF dict_has(Val(s.G.state_district_dict), state)
  THEN [G |-> s.G, ref |-> s.ref, err |-> NoError,
        value |-> dict_get(Val(s.G.state_district_dict), state)]
  ELSE [G |-> s.G, ref |-> s.ref, value |-> 0,
        err |-> Error("ValueError", "NoSeatData",
                      <<"No data found for state '">> \o state
                      \o <<"'. Please use a valid state abbreviation.">>)]

\* get_num_seats, lines 59-64
get_num_seats(G, env, state) ==
  get_num_seats_after_setup(setup_state_data(G, env), state)

(***************************************************************************)
(* retrieve_2020_state_district_data                                       *)
(***************************************************************************)
\* What a call did: the globals afterwards, the reference documents and the
\* district URLs it requested, the notices it printed, the results of its
\* extractOne calls, the error it raised, and the rows it returned.
Effect(G, ref, req, notices, resolved, err, rows) ==
  [G |-> G, ref |-> ref, req |-> req, notices |-> notices,
   resolved |-> resolved, err |-> err, rows |-> rows]

\* the record of one extractOne call
Resolved(by, input, x) ==
  [by |-> by, input |-> input, match |-> x.match, score |-> x.score]

\* a slip at lines 113 and 132: an exact match counts as inexact
is_inexact_or_exact(score) == score <= 100

\* line 113 and line 132
is_inexact(score) == score < 100

\* lines 107-111 and 126-130
district_error(name, num_seats) ==
  Error("ValueError", "DistrictOutOfRange",
        <<"'">> \o name \o <<"' only has ">> \o str(num_seats)
        \o (IF num_seats > 1 THEN <<" districts.">> ELSE <<" district.">>))

\* a slip at lines 113-117: the caller's input goes into the URL as it is
name_url_literal(state, closest_match, score, s2a, district_num) ==
  base_url \o state \o district_num

\* lines 113-117: the URL of a full-name request
name_url(state, closest_match, score, s2a, district_num) ==
  IF is_inexact(score)
  THEN base_url \o dict_get(s2a, closest_match) \o district_num
  ELSE base_url \o state \o district_num

\* lines 132-136: the URL of an abbreviation request
abbr_url(state, closest_match, score, district_num) ==
  IF is_inexact(score)
  THEN base_url \o closest_match \o district_num
  ELSE base_url \o state \o district_num

\* line 114
name_notice(state, closest_match, score) ==
  IF is_inexact(score)
  THEN << <<"No state by the name '">> \o state
          \o <<"'. Assuming you meant '">> \o closest_match \o <<"'.">> >>
  ELSE <<>>

\* line 133
abbr_notice(state, closest_match, score) ==
  IF is_inexact(score)
  THEN << <<"No state abbreviation by the name '">> \o state
          \o <<"'. Assuming you meant '">> \o closest_match \o <<"'.">> >>
  ELSE <<>>

\* lines 143-150: the CSV of a district is one row per candidate; the model
\* keeps one row, identified by the URL it came from, with the two columns
\* the code inserts in front
district_rows(url, abbreviation, district_num) ==
  << [State_Abbreviation |-> abbreviation, District |-> district_num,
      source |-> url] >>

\* lines 139-152, after the URL is built; status is the response's status
fetch_district(G, ref, notices, resolved, url, status, abbreviation, district_num) ==
  IF status # codes_ok /\ raises_for_status(status)
  THEN Effect(G, ref, <<url>>, notices, resolved, HTTPError(url, status), <<>>)
  ELSE Effect(G, ref, <<url>>, notices, resolved, NoError,
              district_rows(url, abbreviation, district_num))

\* a slip at lines 107 and 126: the first district past the last one passes
validate_and_fetch_off_by_one(s, trace, seats, district, name, notice, url, status, abbreviation) ==
  IF seats.err # NoError
  THEN Effect(s.G, s.ref, <<>>, <<>>, trace, seats.err, <<>>)
  ELSE IF district > seats.value + 1
  THEN Effect(s.G, s.ref, <<>>, <<>>, trace,
              district_error(name, seats.value), <<>>)
  ELSE fetch_district(s.G, s.ref, notice, trace, url, status, abbreviation,
                      format_02(district))

\* lines 105-117 and 124-136 after the match: seats is what get_num_seats
\* did, name the state's name in the message, abbreviation the tag of line 146
validate_and_fetch(s, trace, seats, district, name, notice, url, status, abbreviation) ==
  IF seats.err # NoError
  THEN Effect(s.G, s.ref, <<>>, <<>>, trace, seats.err, <<>>)
  ELSE IF district > seats.value
  THEN Effect(s.G, s.ref, <<>>, <<>>, trace,
              district_error(name, seats.value), <<>>)
  ELSE fetch_district(s.G, s.ref, notice, trace, url, status, abbreviation,
                      format_02(district))

\* lines 104-117, x being the result of extractOne at line 104
retrieve_by_name(s, env, state, district, status, x) ==
  validate_and_fetch(
    s, <<Resolved("retrieve", state, x)>>,
    get_num_seats(s.G, env, dict_get(Val(s.G.state_to_abr_dict), x.match)),
    district, x.match, name_notice(state, x.match, x.score),
    name_url(state, x.match, x.score, Val(s.G.state_to_abr_dict),
             format_02(district)),
    status, dict_get(Val(s.G.state_to_abr_dict), x.match))

\* lines 123-136, x being the result of extractOne at line 123
retrieve_by_abbreviation(s, env, state, district, status, x) ==
  validate_and_fetch(
    s, <<Resolved("retrieve", state, x)>>,
    get_num_seats(s.G, env, x.match),
    district, dict_get(Val(s.G.abr_to_state_dict), x.match),
    abbr_notice(state, x.match, x.score),
    abbr_url(state, x.match, x.score, format_02(district)),
    status, x.match)

\* line 103 (and line 193): longer than an abbreviation
is_full_name(state) == Len(state) > 2

\* a slip at line 119: only the empty string is too short
too_short_empty_only(state) == Len(state) < 1

\* line 119: too short for a name or an abbreviation
too_short(state) == Len(state) < 2

\* lines 98-136, s being what the call of setup_state_data at line 96 did
retrieve_after_setup(m, s, env, state, district, status) ==
  IF s.err # NoError THEN Effect(s.G, s.ref, <<>>, <<>>, <<>>, s.err, <<>>)
  ELSE IF is_full_name(state)
  THEN \* full state name: states_list is the keys of state_to_abr_dict
       retrieve_by_name(
         s, env, state, district, status,
         extractOne(m, state, dict_keys(Val(s.G.state_to_abr_dict))))
  ELSE IF too_short(state)
  THEN Effect(s.G, s.ref, <<>>, <<>>, <<>>,
              Error("ValueError", "InvalidStateInput",
                    <<"No state could be found under the name '">> \o state
                    \o <<"'. Please use a full abbreviation or state name.">>),
              <<>>)
  ELSE \* state abbreviation: abbr_list is the values of state_to_abr_dict
       retrieve_by_abbreviation(
         s, env, state, district, status,
         extractOne(m, state, dict_values(Val(s.G.state_to_abr_dict))))

\* m: the installed matcher; env: the reference sources (setup_state_data);
\* status: the status of the district source's response
retrieve_2020_state_district_data(m, G, env, state, district, status) ==
  IF district < 1
  THEN Effect(G, <<>>, <<>>, <<>>, <<>>,
              Error("ValueError", "DistrictOutOfRange",
                    <<"District numbers must be greater than 0.">>), <<>>)
  ELSE retrieve_after_setup(m, setup_state_data(G, env), env, state, district,
                            status)

(***************************************************************************)
(* Functions.py: the earlier retrieve_2020_state_district_data, which      *)
(* takes the name-to-abbreviation dict from its caller and checks no       *)
(* district number.                                                        *)
(***************************************************************************)
\* create_state_abr_dict(get_states_abr_df(URL)): the dict the caller builds
\* from the abbreviation table and passes in
Functions_state_abr_dict ==
  to_dict(clean_states_df(AbbreviationTable), "State", "Abbreviation")

\* Functions.py line 102
Functions_name_notice(closest_match, score) ==
  IF is_inexact(score)
  THEN << <<"No state by this name. Assuming you meant ">> \o closest_match
          \o <<".">> >>
  ELSE <<>>

\* Functions.py line 111
Functions_abbr_notice(closest_match, score) ==
  IF is_inexact(score)
  THEN << <<"No state abbreviation by this name. Assuming you meant ">>
          \o closest_match \o <<".">> >>
  ELSE <<>>

\* Functions.py lines 100-105 and 115-121, x being the result of extractOne
Functions_by_name(G, state_abr_dict, state, district, status, x) ==
  fetch_district(G, <<>>, Functions_name_notice(x.match, x.score),
                 <<Resolved("retrieve", state, x)>>,
                 name_url(state, x.match, x.score, state_abr_dict,
                          format_02(district)),
                 status, dict_get(state_abr_dict, x.match), format_02(district))

\* Functions.py lines 109-121, x being the result of extractOne
Functions_by_abbreviation(G, state, district, status, x) ==
  fetch_district(G, <<>>, Functions_abbr_notice(x.match, x.score),
                 <<Resolved("retrieve", state, x)>>,
                 abbr_url(state, x.match, x.score, format_02(district)),
                 status, x.match, format_02(district))

\* Functions.py lines 79-121
Functions_retrieve_2020_state_district_data(m, G, state, district, state_abr_dict, status) ==
  IF is_full_name(state)
  THEN Functions_by_name(G, state_abr_dict, state, district, status,
                         extractOne(m, state, dict_keys(state_abr_dict)))
  ELSE IF too_short(state)
  THEN Effect(G, <<>>, <<>>, <<>>, <<>>,
              Error("ValueError", "InvalidStateInput",
                    <<"No state could be found under the name ">> \o state
                    \o <<". Please use a full abbreviation or state name.">>),
              <<>>)
  ELSE Functions_by_abbreviation(
         G, state, district, status,
         extractOne(m, state, dict_values(state_abr_dict)))

(***************************************************************************)
(* get_all_data                                                            *)
(***************************************************************************)
\* The district source during one call: its resp.bad-th response carries
\* resp.status, every other response is 200.
response_status(resp, i) == IF i = resp.bad THEN resp.status ELSE codes_ok

\* a slip at line 182: a score of exactly 80 is rejected
no_close_match_at_80(score) == score <= 80

\* line 182
no_close_match(score) == score < 80

\* lines 182-184, x being the result of extractOne at line 181
close_match_error(input_state, x) ==
  IF no_close_match(x.score)
  THEN Error("ValueError", "NoCloseMatch",
             <<"No close match found for '">> \o input_state
             \o <<"'. Please check your input.">>)
  ELSE NoError

\* one more call's effect after the effects so far; acc.rows is data_list
then_effect(acc, r) ==
  Effect(r.G, acc.ref \o r.ref, acc.req \o r.req, acc.notices \o r.notices,
         acc.resolved \o r.resolved, r.err,
         IF r.err # NoError THEN <<>> ELSE acc.rows \o r.rows)

RECURSIVE fetch_districts(_, _, _, _, _, _, _)
RECURSIVE fetch_districts_from(_, _, _, _, _, _, _)
\* lines 200-201 and 204-205: districts d..n of one state, in order
fetch_districts(m, acc, env, state, d, n, resp) ==
  IF d > n THEN acc
  ELSE fetch_districts_from(
         m,
         then_effect(acc, retrieve_2020_state_district_data(
                            m, acc.G, env, state, d,
                            response_status(resp, Len(acc.req) + 1))),
         env, state, d, n, resp)

\* a slip at line 201: a failed district is skipped and the loop goes on
fetch_districts_skip_failed(m, next, env, state, d, n, resp) ==
  fetch_districts(m, [next EXCEPT !.err = NoError], env, state, d + 1, n, resp)

\* next is the effect up to and including district d: a call that raised
\* ends the loop
fetch_districts_from(m, next, env, state, d, n, resp) ==
  IF next.err # NoError THEN next
  ELSE fetch_districts(m, next, env, state, d + 1, n, resp)

\* a slip at lines 200 and 204: range(1, get_num_seats(state))
fetch_range_without_last(m, acc, env, state, resp, seats) ==
  IF seats.err # NoError
  THEN then_effect(acc, Effect(seats.G, seats.ref, <<>>, <<>>, <<>>,
                               seats.err, <<>>))
  ELSE fetch_districts(m, acc, env, state, 1, seats.value - 1, resp)

\* the loop of line 200 or 204, seats being what get_num_seats did
fetch_range(m, acc, env, state, resp, seats) ==
  IF seats.err # NoError
  THEN then_effect(acc, Effect(seats.G, seats.ref, <<>>, <<>>, <<>>,
                               seats.err, <<>>))
  ELSE fetch_districts(m, acc, env, state, 1, seats.value, resp)

\* line 200 and line 204: range(1, get_num_seats(state) + 1), then the loop
fetch_state(m, acc, env, state, resp) ==
  fetch_range(m, acc, env, state, resp, get_num_seats(acc.G, env, state))

\* line 195: the Abbreviation of the first row of states_df with that State
abbreviation_of(sdf, closest_match) ==
  sdf[CHOOSE k \in DOMAIN sdf :
        /\ sdf[k].State = closest_match
        /\ \A j \in DOMAIN sdf : sdf[j].State = closest_match => k <= j
     ].Abbreviation

\* line 189 and line 190
column(sdf, name) == [k \in DOMAIN sdf |-> sdf[k][name]]

\* lines 193-198: the extractOne call of get_closest_match for one identifier
closest_in_states_df(m, sdf, state) ==
  IF is_full_name(state)
  THEN extractOne(m, state, column(sdf, "State"))
  ELSE extractOne(m, state, column(sdf, "Abbreviation"))

RECURSIVE fetch_listed(_, _, _, _, _, _)
RECURSIVE fetch_listed_match(_, _, _, _, _, _, _)
RECURSIVE fetch_listed_from(_, _, _, _, _, _)
\* lines 192-201: the identifiers states[i..] of the caller's list
fetch_listed(m, acc, env, states, i, resp) ==
  IF i > Len(states) THEN acc
  ELSE fetch_listed_match(
         m, acc, env, states, i, resp,
         closest_in_states_df(m, Val(acc.G.states_df), states[i]))

\* lines 193-201 for states[i], x being the result of its extractOne
fetch_listed_match(m, acc, env, states, i, resp, x) ==
  IF close_match_error(states[i], x) # NoError
  THEN then_effect(acc, Effect(acc.G, <<>>, <<>>, <<>>,
                               <<Resolved("get_closest_match", states[i], x)>>,
                               close_match_error(states[i], x), <<>>))
  ELSE fetch_listed_from(
         m,
         fetch_state(
           m,
           then_effect(acc, Effect(acc.G, <<>>, <<>>, <<>>,
                                   <<Resolved("get_closest_match", states[i], x)>>,
                                   NoError, <<>>)),
           env,
           IF is_full_name(states[i])
           THEN abbreviation_of(Val(acc.G.states_df), x.match)
           ELSE x.match,
           resp),
         env, states, i, resp)

\* done is the effect up to and including states[i]
fetch_listed_from(m, done, env, states, i, resp) ==
  IF done.err # NoError THEN done
  ELSE fetch_listed(m, done, env, states, i + 1, resp)

RECURSIVE fetch_every(_, _, _, _, _, _)
RECURSIVE fetch_every_from(_, _, _, _, _, _)
\* lines 203-205: every key of state_district_dict, in the dict's order
fetch_every(m, acc, env, keys, i, resp) ==
  IF i > Len(keys) THEN acc
  ELSE fetch_every_from(m, fetch_state(m, acc, env, keys[i], resp),
                        env, keys, i, resp)

\* done is the effect up to and including keys[i]
fetch_every_from(m, done, env, keys, i, resp) ==
  IF done.err # NoError THEN done
  ELSE fetch_every(m, done, env, keys, i + 1, resp)

\* line 188: a list is true when it is neither None nor empty
truthy(states) == states # None /\ Val(states) # <<>>

\* line 207: pd.concat raises on an empty list
concat(done) ==
  IF done.err # NoError THEN done
  ELSE IF done.rows = <<>>
  THEN [done EXCEPT !.err = Error("ValueError", "NothingToConcatenate",
                                  <<"No objects to concatenate">>)]
  ELSE done

\* get_all_after_setup with the test of line 188 written "states is not None"
get_all_after_setup_is_not_none(m, s, env, states, resp) ==
  IF s.err # NoError THEN Effect(s.G, s.ref, <<>>, <<>>, <<>>, s.err, <<>>)
  ELSE IF states # None
  THEN concat(fetch_listed(
                m, Effect(s.G, s.ref, <<>>, <<>>, <<>>, NoError, <<>>),
                env, Val(states), 1, resp))
  ELSE concat(fetch_every(
                m, Effect(s.G, s.ref, <<>>, <<>>, <<>>, NoError, <<>>),
                env, dict_keys(Val(s.G.state_district_dict)), 1, resp))

\* lines 186-209, s being what the call of setup_state_data at line 178 did
get_all_after_setup(m, s, env, states, resp) ==
  IF s.err # NoError THEN Effect(s.G, s.ref, <<>>, <<>>, <<>>, s.err, <<>>)
  ELSE IF truthy(states)
  THEN concat(fetch_listed(
                m, Effect(s.G, s.ref, <<>>, <<>>, <<>>, NoError, <<>>),
                env, Val(states), 1, resp))
  ELSE concat(fetch_every(
                m, Effect(s.G, s.ref, <<>>, <<>>, <<>>, NoError, <<>>),
                env, dict_keys(Val(s.G.state_district_dict)), 1, resp))

\* states is None or Some(list)
get_all_data(m, G, env, states, resp) ==
  get_all_after_setup(m, setup_state_data(G, env), env, states, resp)

(***************************************************************************)
(* The session: a caller invokes the module's functions one after another. *)
(***************************************************************************)
VARIABLES
  matcher,                   \* the installed matcher (difflib or levenshtein)
  state_district_dict,       \* the module's globals, lines 10-14
  states_df,
  state_to_abr_dict,
  abr_to_state_dict,
  state_representatives_df,
  pc,                        \* "idle", or "returned" after a call
  call,                      \* the last call and its arguments
  ref_requests,              \* reference documents fetched during the call
  requests,                  \* district URLs requested during the call
  statuses,                  \* the statuses of the responses to requests
  notices,                   \* lines printed during the call
  resolved,                  \* the results of the call's extractOne calls
  error,                     \* the exception the call raised, or NoError
  rows,                      \* the rows of the DataFrame the call returned
  value                      \* the integer get_num_seats returned

globals == <<state_district_dict, states_df, state_to_abr_dict,
             abr_to_state_dict, state_representatives_df>>
outcome == <<call, ref_requests, requests, statuses, notices, resolved,
             error, rows, value>>
vars == <<matcher, globals, pc, outcome>>

G_now == Globals(state_district_dict, states_df, state_to_abr_dict,
                 abr_to_state_dict, state_representatives_df)

\* what the caller passes as a state
StateInputs ==
  { Texas, <<"t","e","x","a","s">>, <<"T","e","x","a","z">>,
    Utah, <<"U","t","a","a">>, UT, <<"u","t">>, TX, <<"T","Z">>, <<"Q","Q">>,
    Alaska, AK, Guam, GU, <<"T">>, <<>> }

\* what the caller puts in the list given to get_all_data
FilterInputs ==
  { <<"T","e","x","a","z">>, <<"T","e","x","z","z">>, <<"t","x">>, AK,
    GU, <<"T">> }

RECURSIVE Lists(_)
\* the lists of at most n filter inputs
Lists(n) ==
  IF n = 0 THEN {<<>>}
  ELSE LET shorter == Lists(n - 1)
       IN  shorter \cup {Append(l, x) : l \in shorter, x \in FilterInputs}

NoCall == [op |-> "", state |-> <<>>, district |-> 0, states |-> None]

\* What the two reference sources can do during one call.  Once the globals
\* are set no fetch happens and one environment stands for all.
RefEnvs(G) ==
  LET v0 == CHOOSE v \in SeatsTables : TRUE
  IN  IF ~needs_setup(G)
      THEN {[status1 |-> codes_ok, status2 |-> codes_ok, seats |-> v0]}
      ELSE {[status1 |-> st, status2 |-> codes_ok, seats |-> v0] :
              st \in ErrorStatuses}
           \cup {[status1 |-> codes_ok, status2 |-> st, seats |-> v0] :
                   st \in ErrorStatuses}
           \cup {[status1 |-> codes_ok, status2 |-> codes_ok, seats |-> v] :
                   v \in SeatsTables}

\* the district source answering every request with 200
AllOk == [bad |-> 0, status |-> codes_ok]

\* What the district source can do during a call that issues n requests when
\* all are answered with 200: answer them so, or answer one with an error.
Responses(n) ==
  {AllOk} \cup {[bad |-> i, status |-> st] : i \in 1..n, st \in ErrorStatuses}

Init ==
  /\ matcher \in Matchers
  /\ state_district_dict = None
  /\ states_df = None
  /\ state_to_abr_dict = None
  /\ abr_to_state_dict = None
  /\ state_representatives_df = None
  /\ pc = "idle"
  /\ call = NoCall
  /\ ref_requests = <<>>
  /\ requests = <<>>
  /\ statuses = <<>>
  /\ notices = <<>>
  /\ resolved = <<>>
  /\ error = NoError
  /\ rows = <<>>
  /\ value = 0

SetGlobals(G) ==
  /\ state_district_dict' = G.state_district_dict
  /\ states_df' = G.states_df
  /\ state_to_abr_dict' = G.state_to_abr_dict
  /\ abr_to_state_dict' = G.abr_to_state_dict
  /\ state_representatives_df' = G.state_representatives_df

\* the caller calls setup_state_data()
SetupStateData ==
  /\ pc = "idle"
  /\ \E env \in RefEnvs(G_now) :
       LET e == setup_state_data(G_now, env)
       IN  /\ SetGlobals(e.G)
           /\ call' = [NoCall EXCEPT !.op = "setup_state_data"]
           /\ ref_requests' = e.ref
           /\ error' = e.err
           /\ UNCHANGED <<requests, statuses, notices, resolved, rows, value>>
  /\ pc' = "returned"
  /\ UNCHANGED matcher

\* the caller calls get_num_seats(state)
GetNumSeats ==
  /\ pc = "idle"
  /\ \E env \in RefEnvs(G_now), state \in StateInputs :
       LET e == get_num_seats(G_now, env, state)
       IN  /\ SetGlobals(e.G)
           /\ call' = [NoCall EXCEPT !.op = "get_num_seats", !.state = state]
           /\ ref_requests' = e.ref
           /\ error' = e.err
           /\ value' = e.value
           /\ UNCHANGED <<requests, statuses, notices, resolved, rows>>
  /\ pc' = "returned"
  /\ UNCHANGED matcher

SetOutcome(e, resp) ==
  /\ SetGlobals(e.G)
  /\ ref_requests' = e.ref
  /\ requests' = e.req
  /\ statuses' = [i \in DOMAIN e.req |-> response_status(resp, i)]
  /\ notices' = e.notices
  /\ resolved' = e.resolved
  /\ error' = e.err
  /\ rows' = e.rows

\* the caller calls retrieve_2020_state_district_data(state, district)
Retrieve ==
  /\ pc = "idle"
  /\ \E env \in RefEnvs(G_now), state \in StateInputs,
        district \in 0..MaxDistrict, resp \in Responses(1) :
       /\ SetOutcome(retrieve_2020_state_district_data(
                       matcher, G_now, env, state, district,
                       response_status(resp, 1)),
                     resp)
       /\ call' = [NoCall EXCEPT !.op = "retrieve_2020_state_district_data",
                                 !.state = state, !.district = district]
  /\ pc' = "returned"
  /\ UNCHANGED <<matcher, value>>

\* the caller calls Functions.retrieve_2020_state_district_data(state,
\* district, state_abr_dict)
FunctionsRetrieve ==
  /\ pc = "idle"
  /\ \E state \in StateInputs, district \in 0..MaxDistrict,
        resp \in Responses(1) :
       /\ SetOutcome(Functions_retrieve_2020_state_district_data(
                       matcher, G_now, state, district,
                       Functions_state_abr_dict, response_status(resp, 1)),
                     resp)
       /\ call' = [NoCall EXCEPT
                     !.op = "Functions.retrieve_2020_state_district_data",
                     !.state = state, !.district = district]
  /\ pc' = "returned"
  /\ UNCHANGED <<matcher, value>>

\* the caller calls get_all_data(states)
GetAllData ==
  /\ pc = "idle"
  /\ \E env \in RefEnvs(G_now),
        states \in {None} \cup {Some(l) : l \in Lists(MaxFilter)} :
       \E resp \in Responses(
                     Len(get_all_data(matcher, G_now, env, states, AllOk).req)) :
         /\ SetOutcome(get_all_data(matcher, G_now, env, states, resp), resp)
         /\ call' = [NoCall EXCEPT !.op = "get_all_data", !.states = states]
  /\ pc' = "returned"
  /\ UNCHANGED <<matcher, value>>

\* the caller has the result and goes on
Return ==
  /\ pc = "returned"
  /\ pc' = "idle"
  /\ call' = NoCall
  /\ ref_requests' = <<>>
  /\ requests' = <<>>
  /\ statuses' = <<>>
  /\ notices' = <<>>
  /\ resolved' = <<>>
  /\ error' = NoError
  /\ rows' = <<>>
  /\ value' = 0
  /\ UNCHANGED <<matcher, globals>>

Next ==
  \/ SetupStateData
  \/ GetNumSeats
  \/ Retrieve
  \/ FunctionsRetrieve
  \/ GetAllData
  \/ Return

Spec == Init /\ [][Next]_vars

(***************************************************************************)
(* Properties.                                                             *)
(***************************************************************************)
Returned(op) == pc = "returned" /\ call.op = op

\* the four lookup structures are set
Loaded == ~needs_setup(G_now)

\* a district number below 100 as two decimal digits
TwoDigits(d) == <<DigitChars[(d \div 10) + 1], DigitChars[(d % 10) + 1]>>

\* the ReferenceTable: the records that carry a name, an abbreviation and a
\* seat count
ReferenceTable == Val(state_representatives_df)

\* the seat count of an abbreviation in the ReferenceTable
SeatCount(abbreviation) ==
  LET k == CHOOSE i \in DOMAIN ReferenceTable :
             ReferenceTable[i].Abbreviation = abbreviation
  IN  ReferenceTable[k].Total_seats

HasSeatCount(abbreviation) ==
  \E i \in DOMAIN ReferenceTable : ReferenceTable[i].Abbreviation = abbreviation

\* the abbreviation a single-district call resolved its state to: the best
\* match itself, or the abbreviation of the best-matching name
ResolvedAbbreviation ==
  LET best == resolved[1].match
  IN  IF Len(call.state) > 2
      THEN ReferenceTable[CHOOSE i \in DOMAIN ReferenceTable :
                            ReferenceTable[i].State = best].Abbreviation
      ELSE best

\* a single-district call that got as far as resolving its state: the
\* district is at least 1 and the reference table is there
Resolving ==
  /\ Returned("retrieve_2020_state_district_data")
  /\ call.district >= 1
  /\ Loaded

\* C1: every successful single-district call requests exactly the base path
\* followed by the resolved 2-letter abbreviation followed by the district
\* number as two digits.
C1_UrlIsBaseAbbreviationDistrict ==
  /\ (Returned("retrieve_2020_state_district_data") /\ error = NoError)
       => requests = << base_url \o ResolvedAbbreviation
                        \o TwoDigits(call.district) >>
  /\ (Returned("Functions.retrieve_2020_state_district_data") /\ error = NoError)
       => requests = << base_url \o rows[1].State_Abbreviation
                        \o TwoDigits(call.district) >>

\* C2: resolving the full name or the abbreviation of a record of the
\* ReferenceTable yields that record's abbreviation with score 100, which is
\* the State_Abbreviation of the returned rows, and prints no notice.
C2_TableEntriesResolveExactly ==
  Resolving =>
    \A i \in DOMAIN ReferenceTable :
      call.state \in {ReferenceTable[i].State, ReferenceTable[i].Abbreviation}
        => /\ Len(resolved) = 1
           /\ resolved[1].score = 100
           /\ ResolvedAbbreviation = ReferenceTable[i].Abbreviation
           /\ notices = <<>>
           /\ \A r \in DOMAIN rows :
                rows[r].State_Abbreviation = ReferenceTable[i].Abbreviation

C2_Witness ==
  /\ Resolving
  /\ rows # <<>>
  /\ \E i \in DOMAIN ReferenceTable : call.state = ReferenceTable[i].State

\* C3: a single-district call fails with DistrictOutOfRange exactly when the
\* district is below 1 or above the seat count of the resolved state, it has
\* then requested nothing from the district source, and no district in
\* 1..seat count is rejected.
C3_DistrictOutOfRange ==
  Returned("retrieve_2020_state_district_data") =>
    /\ call.district < 1 => error.kind = "DistrictOutOfRange"
    /\ error.kind = "DistrictOutOfRange" => requests = <<>> /\ rows = <<>>
    /\ error.kind = "DistrictOutOfRange" => call.district < 1 \/ resolved # <<>>
    /\ resolved # <<>> =>
         (error.kind = "DistrictOutOfRange"
            <=> call.district > SeatCount(ResolvedAbbreviation))

C3_Witness ==
  /\ Resolving
  /\ resolved # <<>>
  /\ call.district = SeatCount(ResolvedAbbreviation) + 1
  /\ error.kind = "DistrictOutOfRange"

C5_ShortInputIsInvalid ==
  /\ (Returned("retrieve_2020_state_district_data") /\ Len(call.state) < 2)
       => /\ resolved = <<>>
          /\ requests = <<>>
          /\ rows = <<>>
          /\ error # NoError
          /\ Resolving => error.kind = "InvalidStateInput"
  /\ (Returned("Functions.retrieve_2020_state_district_data")
        /\ Len(call.state) < 2)
       => /\ resolved = <<>>
          /\ requests = <<>>
          /\ rows = <<>>
          /\ error.kind = "InvalidStateInput"

C5_Witness ==
  /\ Resolving
  /\ Len(call.state) = 1
  /\ error.kind = "InvalidStateInput"

\* the best similarity score of an identifier given to get_all_data: against
\* the known names when it is longer than 2, the known abbreviations otherwise
BestScore(input) ==
  LET sdf == Val(states_df)
      choices == IF Len(input) > 2 THEN column(sdf, "State")
                 ELSE column(sdf, "Abbreviation")
      scores == {ratio(matcher, full_process(input), full_process(choices[i])) :
                   i \in DOMAIN choices}
  IN  CHOOSE x \in scores : \A y \in scores : x >= y

\* the abbreviation that stands for a best match of get_all_data
AbbreviationFor(input, match) ==
  IF Len(input) > 2
  THEN LET sdf == Val(states_df)
       IN  sdf[CHOOSE i \in DOMAIN sdf : sdf[i].State = match].Abbreviation
  ELSE match

IsClosestMatch(e) == e.by = "get_closest_match"

\* the results of the get_closest_match calls of a get_all_data call
ClosestMatches == SelectSeq(resolved, IsClosestMatch)

\* C6: in get_all_data with a list of identifiers, an identifier whose best
\* score is below 80 makes the call fail with NoCloseMatch, and one whose
\* best score is at least 80 is accepted and its best match is what the
\* call goes on with.
C6_CloseMatchThreshold ==
  (Returned("get_all_data") /\ truthy(call.states) /\ Loaded) =>
    /\ Len(ClosestMatches) <= Len(Val(call.states))
    /\ \A j \in DOMAIN ClosestMatches :
         ClosestMatches[j].input = Val(call.states)[j]
    /\ error = NoError => Len(ClosestMatches) = Len(Val(call.states))
    /\ error.kind = "NoCloseMatch" =>
         resolved # <<>> /\ IsClosestMatch(resolved[Len(resolved)])
    /\ \A k \in DOMAIN resolved :
         IsClosestMatch(resolved[k]) =>
           LET e == resolved[k]
               last == k = Len(resolved)
               abbreviation == AbbreviationFor(e.input, e.match)
           IN  /\ e.score = BestScore(e.input)
               /\ e.score < 80 => last /\ error.kind = "NoCloseMatch"
               /\ e.score >= 80 =>
                    /\ ~(last /\ error.kind = "NoCloseMatch")
                    /\ last => /\ error.kind = "NoSeatData"
                               /\ SubSeq(error.msg, 2, 3) = abbreviation
                    /\ ~last => /\ resolved[k + 1].by = "retrieve"
                                /\ resolved[k + 1].input = abbreviation

C6_Witness ==
  /\ Returned("get_all_data")
  /\ error.kind = "NoCloseMatch"
  /\ \E k \in DOMAIN resolved :
       /\ IsClosestMatch(resolved[k])
       /\ resolved[k].score >= 80
       /\ resolved[k].score < 100
  /\ requests # <<>>

\* the states a get_all_data call iterates: the abbreviations its identifiers
\* resolved to, or every abbreviation of the ReferenceTable in its order
IteratedStates ==
  IF truthy(call.states)
  THEN [j \in DOMAIN ClosestMatches |->
          AbbreviationFor(ClosestMatches[j].input, ClosestMatches[j].match)]
  ELSE [i \in DOMAIN ReferenceTable |-> ReferenceTable[i].Abbreviation]

RECURSIVE DistrictPairs(_)
\* the pairs (state, d), 1 <= d <= seat count, in state order and then in
\* ascending district order
DistrictPairs(sts) ==
  IF sts = <<>> THEN <<>>
  ELSE [d \in 1..SeatCount(Head(sts)) |-> <<Head(sts), d>>]
       \o DistrictPairs(Tail(sts))

PairUrl(p) == base_url \o p[1] \o TwoDigits(p[2])

\* C7: a successful get_all_data has issued exactly one district fetch per
\* pair (state, d) of the iterated states, in state order and then ascending
\* district order, and returns the fetched rows in that order.
C7_FetchesEveryDistrictInOrder ==
  (Returned("get_all_data") /\ error = NoError) =>
    LET pairs == DistrictPairs(IteratedStates)
    IN  /\ requests = [i \in DOMAIN pairs |-> PairUrl(pairs[i])]
        /\ rows = [i \in DOMAIN pairs |->
                     [State_Abbreviation |-> pairs[i][1],
                      District |-> TwoDigits(pairs[i][2]),
                      source |-> PairUrl(pairs[i])]]

C7_Witness ==
  /\ Returned("get_all_data")
  /\ error = NoError
  /\ truthy(call.states)
  /\ Len(IteratedStates) = 2
  /\ IteratedStates[1] # IteratedStates[2]
  /\ Len(rows) >= 3

\* C8: in get_all_data the first district fetch answered with a non-success
\* status is the last request of the call, which fails with
\* SourceUnavailable for that URL and returns no rows.
C8_FailedFetchAborts ==
  Returned("get_all_data") =>
    /\ \A i \in DOMAIN statuses :
         statuses[i] # codes_ok =>
           /\ i = Len(requests)
           /\ error = HTTPError(requests[i], statuses[i])
           /\ error.kind = "SourceUnavailable"
           /\ rows = <<>>
    /\ (error.kind = "SourceUnavailable" /\ requests # <<>>)
         => statuses[Len(requests)] # codes_ok

C8_Witness ==
  /\ Returned("get_all_data")
  /\ call.states = None
  /\ Len(requests) = 2
  /\ error.kind = "SourceUnavailable"
  /\ ref_requests = <<>>

\* C9: once the four lookup structures are set no call fetches a reference
\* document or changes a global; while they are not all set, a call that
\* gets to setup_state_data fetches the documents anew and either sets all
\* of them or fails without having used any.
C9_ReferenceTableBuiltOnce ==
  [][ /\ Loaded => /\ UNCHANGED globals
                   /\ ref_requests' = <<>>
      /\ ( /\ ~Loaded
           /\ call'.op \in {"setup_state_data", "get_num_seats",
                             "retrieve_2020_state_district_data",
                             "get_all_data"}
           /\ ~( /\ call'.op = "retrieve_2020_state_district_data"
                 /\ call'.district < 1 ) )
         => /\ ref_requests' # <<>>
            /\ ref_requests'[1] = URL1
            /\ \/ Loaded' /\ ref_requests' = <<URL1, URL2>>
               \/ /\ ~Loaded'
                  /\ error'.kind \in {"SourceUnavailable", "ParseError"}
                  /\ requests' = <<>>
                  /\ resolved' = <<>>
                  /\ rows' = <<>>
                  /\ value' = 0
    ]_vars

C9_Witness ==
  /\ Returned("get_all_data")
  /\ Loaded
  /\ ref_requests = <<>>
  /\ rows # <<>>

\* C10: in get_all_data with a list of identifiers, every accepted identifier
\* (best score at least 80) resolves to an abbreviation with a seat count in
\* the ReferenceTable, and the call ends in no error other than NoCloseMatch
\* or a failed district fetch.
C10_AcceptedIdentifiersHaveSeats ==
  (Returned("get_all_data") /\ truthy(call.states) /\ Loaded) =>
    /\ error.kind \in {"", "NoCloseMatch", "SourceUnavailable"}
    /\ \A j \in DOMAIN ClosestMatches :
         ClosestMatches[j].score >= 80 =>
           HasSeatCount(AbbreviationFor(ClosestMatches[j].input,
                                        ClosestMatches[j].match))

\* the state a district URL asks for: what stands between base_url and the
\* two digits of the district
RequestState(u) == SubSeq(u, Len(base_url) + 1, Len(u) - 2)

\* every district request of the call asks for a state that one of the
\* call's accepted identifiers resolved to
RequestsOnlyForResolved ==
  \A i \in DOMAIN requests :
    \E j \in DOMAIN ClosestMatches :
      /\ ClosestMatches[j].score >= 80
      /\ RequestState(requests[i]) =
           AbbreviationFor(ClosestMatches[j].input, ClosestMatches[j].match)

\* the district URLs of every state of the ReferenceTable, in its order
EveryStateUrls ==
  LET pairs == DistrictPairs([i \in DOMAIN ReferenceTable |->
                                ReferenceTable[i].Abbreviation])
  IN  [i \in DOMAIN pairs |-> PairUrl(pairs[i])]

\* C11 as stated: whenever get_all_data is given a list, an empty one
\* included, its district requests are only for the states the identifiers
\* of the list resolved to; every state of the ReferenceTable is iterated
\* only when the argument is None.
C11_AnyListLimitsRequests ==
  (Returned("get_all_data") /\ Loaded /\ call.states # None) =>
    RequestsOnlyForResolved

\* C11 amended: a non-empty list limits the district requests to the states
\* its identifiers resolved to; with None or an empty list no identifier is
\* resolved and the requests are those of every state of the ReferenceTable
\* in order, all of them unless a fetch failed.
C11_NonEmptyListLimitsRequests ==
  (Returned("get_all_data") /\ Loaded) =>
    IF call.states # None /\ Val(call.states) # <<>>
    THEN RequestsOnlyForResolved
    ELSE /\ ClosestMatches = <<>>
         /\ requests # <<>>
         /\ Len(requests) <= Len(EveryStateUrls)
         /\ requests = SubSeq(EveryStateUrls, 1, Len(requests))
         /\ error = NoError => requests = EveryStateUrls

C11_Witness ==
  /\ Returned("get_all_data")
  /\ Loaded
  /\ call.states = Some(<<>>)
  /\ error = NoError
  /\ requests = EveryStateUrls
  /\ Len(rows) = Len(requests)

====
